---- MODULE Spec2Model ----
(***************************************************************************)
(* Model of the gap strategy service.                                      *)
(*                                                                         *)
(*   src/gap_scanner.py  GapScanner: batch download, per-symbol gap        *)
(*                       detection, scan log                               *)
(*   src/api.py          the cache (last_scan, historical_data, scanning), *)
(*                       scan_market, get_gaps, background_scanner         *)
(*                                                                         *)
(* Specifications:                                                         *)
(*   SpecScan    one run of GapScanner.scan_market_with_log, batch by      *)
(*               batch, over every universe and batch size within the      *)
(*               bounds                                                    *)
(*   Spec        the asyncio service of api.py: the background scanner     *)
(*               and the request handlers interleave at the awaits of the  *)
(*               code; FairSpec is Spec with the running scan terminating  *)
(*   SpecRead    get_gaps answering from any ledger within the bounds      *)
(*   SpecWindow  the calls of scan_market at every second around the scan  *)
(*               window                                                    *)
(*                                                                         *)
(* Units: downloaded prices are in tenths of a cent, the prices of a       *)
(* record in cents, gap_size in hundredths of a percent, times in seconds  *)
(* since day 0, 00:00:00 exchange-local.                                   *)
(***************************************************************************)
EXTENDS Integers, Sequences, FiniteSets, TLC

VARIABLES
    \* ---- GapScanner.scan_market_with_log (one run, SpecScan) ----
    sp500_symbols,   \* self.sp500_symbols: the universe, in order
    batch_size,      \* the batch_size argument
    company_info,    \* self.company_info: the symbols that have an entry
    bidx,            \* number of batches of symbol_batches already iterated
    fetched,         \* what _download_batch_data returned for each of them
    gap_data,        \* gap_data
    scan_log,        \* scan_log
    processed,       \* processed
    spc              \* "loop" while iterating symbol_batches, "done" after return

scanVars == <<bidx, fetched, gap_data, scan_log, processed, spc>>

VARIABLES
    \* ---- api.py (Spec) ----
    clock,           \* datetime.now(est): seconds since day 0, 00:00:00
    cache,           \* cache: last_scan, historical_data, scanning
    pc,              \* per task: "idle", or "scan" while it awaits the executor
    tnow,            \* per task: the local `now` of its scan_market call
    exec,            \* per task: the run of scanner.scan_market in the executor
    bgSleep,         \* what is left of the asyncio.sleep(60) of background_scanner
    ev,              \* the last step taken: what happened, to which task
    response,        \* what the last step answered to a request
    committed,       \* the ledger as the last whole update, or the load, left it
    last_done        \* when a scan last completed, if less than a cooldown ago

apiVars ==
    <<clock, cache, pc, tnow, exec, bgSleep, ev, response, committed, last_done>>

scannerVars == <<sp500_symbols, batch_size, company_info>>

vars == <<scannerVars, scanVars, apiVars>>

----------------------------------------------------------------------------
(* Bounds of the model *)

\* longest universe SpecScan draws
MaxSymbols == 3
\* largest batch_size SpecScan draws
MaxBatch == 2
\* number of symbols of the universe under Spec
ApiSymbols == 1
\* number of concurrent /api/gaps requests under Spec
NReq == 1
\* number of calendar days Spec runs through
MaxDays == 2
\* seconds between two readings of the clock
Step == 120
\* seconds before 9:42:00 and after 9:45:59 at which SpecWindow starts
Margin == 2
\* longest ledger SpecRead draws, and the number of dates it draws from
MaxLedger == 3
ReadDays == 2

----------------------------------------------------------------------------
(* Program constants *)

\* min_gap_percent=0.5 (src/api.py:72), in hundredths of a percent
MinGapPercent == 50
\* the tick added to / subtracted from the opening candle, 0.01 (a cent), in
\* the unit of the downloaded prices, which is a tenth of a cent
Tick == 10
\* the scan window, 9:42 to 9:45 (src/api.py:80-81)
WindowHour == 9
OpenMinute == 42
CutoffMinute == 45
\* total_seconds() > 60 (src/api.py:158)
CooldownSecs == 60
\* asyncio.sleep(60) (src/api.py:216)
SleepSecs == 60
\* len(dates) > 3, dates[-3:] (src/api.py:107-108)
KeepDates == 3
\* batch_size of scanner.scan_market() as api.py calls it, scaled from the
\* default 25 (src/gap_scanner.py:257) to the universe of the model
ApiBatchSize == 1

----------------------------------------------------------------------------
(* Values *)

\* Python's None / a value, as a sequence of length 0 / 1
None == <<>>
Some(x) == <<x>>

Min(a, b) == IF a < b THEN a ELSE b

\* round(a / b) for a >= 0, b > 0 (the values the model draws are never
\* half-way between two results)
RoundDiv(a, b) == (2 * a + b) \div (2 * b)

\* the symbols the universes are drawn from, and their 'Security' in the
\* table of companies
SymbolPool == <<"AAA", "BBB", "CCC", "DDD", "EEE">>
Securities == <<"Aaa Inc", "Bbb Inc", "Ccc Inc", "Ddd Inc", "Eee Inc">>
Security(symbol) ==
    Securities[CHOOSE i \in DOMAIN SymbolPool : SymbolPool[i] = symbol]

\* What one symbol's column of the downloaded frame amounts to, after the two
\* resamplings of identify_gaps: the number of rows, the number of daily
\* candles, the previous day's high and low and the last 12-minute candle.
\* The prices are floats with more than two decimals; the model has them in
\* tenths of a cent.
\* ok = FALSE is a frame on which the computation raises (the symbol is
\* missing from the frame: data[symbol] is a KeyError).
Sample(ok, rows, days, ph, pl, o, c, h, l) ==
    [ok |-> ok, rows |-> rows, days |-> days, prev_high |-> ph, prev_low |-> pl,
     open |-> o, close |-> c, high |-> h, low |-> l]

GapUpSample   == Sample(TRUE, 5, 2, 105000, 100000, 98000, 99000, 99500, 97500)
GapDownSample == Sample(TRUE, 5, 2, 100000, 95000, 102000, 99000, 102500, 98500)
QuietSample   == Sample(TRUE, 5, 2, 100000, 95000, 97000, 98000, 98500, 96500)
SmallSample   == Sample(TRUE, 5, 2, 105000, 100000, 99900, 99950, 99990, 99800)
ShortSample   == Sample(TRUE, 5, 1, 100000, 95000, 102000, 99000, 102500, 98500)
BrokenSample  == Sample(FALSE, 0, 0, 0, 0, 0, 0, 0, 0)
\* the open below the previous low, and a close below / a fraction of a cent
\* above the open
NoReversalSample == Sample(TRUE, 5, 2, 105000, 100000, 98000, 97000, 98500, 96500)
FaintUpSample    == Sample(TRUE, 5, 2, 105000, 100000, 98001, 98004, 99504, 97496)

\* a gap up of 0.499 percent, which rounds to 0.5
NearSample == Sample(TRUE, 5, 2, 105000, 100000, 99501, 99600, 99700, 99400)

Samples == {GapUpSample, GapDownSample, QuietSample, SmallSample, ShortSample,
            BrokenSample, NoReversalSample, FaintUpSample, NearSample}

----------------------------------------------------------------------------
(* GapScanner.company_info *)

\* lines 50-53: the entry of a symbol of the table
TableInfo(symbol) == [name |-> Security(symbol), sector |-> "Industrials"]

\* self.company_info.get(symbol, {'name': symbol, 'sector': 'Unknown'}),
\* lines 149 and 218
CompanyInfo(symbol) ==
    IF symbol \in company_info THEN TableInfo(symbol)
    ELSE [name |-> symbol, sector |-> "Unknown"]

\* self.company_info.get(symbol, {}).get('name', 'Unknown') and the same for
\* 'sector', lines 207-208 and 241-242
CompanyInfoOrUnknown(symbol) ==
    IF symbol \in company_info THEN TableInfo(symbol)
    ELSE [name |-> "Unknown", sector |-> "Unknown"]

----------------------------------------------------------------------------
(* GapScanner.identify_gaps *)

\* a variant that tests the open against the previous range only
GapUp_open_only(d) == d.open < d.prev_low

\* lines 125-129: the gap conditions
GapUp(d) == d.open < d.prev_low /\ d.close > d.open
GapDown(d) == d.open > d.prev_high /\ d.close < d.open

\* lines 132, 139, rounded as line 163 rounds it
GapSize(d) ==
    IF GapUp(d) THEN RoundDiv((d.prev_low - d.open) * 10000, d.prev_low)
    ELSE RoundDiv((d.open - d.prev_high) * 10000, d.prev_high)

\* a variant that tests the rounded gap size
MeetsThreshold_rounded(d) == GapSize(d) >= MinGapPercent

\* line 148, abs(gap_size) >= self.min_gap_percent, on the unrounded quotient
MeetsThreshold(d) ==
    IF GapUp(d) THEN (d.prev_low - d.open) * 10000 >= MinGapPercent * d.prev_low
    ELSE (d.open - d.prev_high) * 10000 >= MinGapPercent * d.prev_high

\* round(x, 2) of a price: in cents
Round2(x) == RoundDiv(x, Tick)

\* a variant that puts the target of a gap down above the entry
Target_above(up, entry, risk) == entry + risk * 2

\* lines 137 and 144
Target(up, entry, risk) == IF up THEN entry + risk * 2 ELSE entry - risk * 2

\* lines 131-144 and 157-178: the trade plan and the record returned, its
\* prices rounded to cents
GapRecord(symbol, d, date) ==
    LET up    == GapUp(d)
        entry == IF up THEN d.high + Tick ELSE d.low - Tick
        stop  == IF up THEN d.low - Tick ELSE d.high + Tick
        risk  == IF up THEN entry - stop ELSE stop - entry
    IN  [symbol |-> symbol,
         companyName |-> CompanyInfo(symbol).name,
         sector |-> CompanyInfo(symbol).sector,
         date |-> date,
         gap_type |-> IF up THEN "up" ELSE "down",
         gap_size |-> GapSize(d),
         prev_high |-> Round2(d.prev_high), prev_low |-> Round2(d.prev_low),
         current_open |-> Round2(d.open), price |-> Round2(d.close),
         first_candle_high |-> Round2(d.high),
         first_candle_low |-> Round2(d.low),
         entry_price |-> Round2(entry), stop_loss |-> Round2(stop),
         target |-> Round2(Target(up, entry, risk)),
         risk_amount |-> Round2(risk), reward_amount |-> Round2(risk * 2)]

\* What a call of identify_gaps gives its caller: raised says whether an
\* exception leaves the function, gap is the value returned.  The function's
\* own try/except (lines 80, 181-183) turns every exception into None.
Returned(gap) == [raised |-> FALSE, gap |-> gap]
Raised == [raised |-> TRUE, gap |-> None]

identify_gaps(symbol, d, date) ==
    IF ~d.ok THEN Returned(None)                          \* lines 181-183
    ELSE IF d.rows < 2 THEN Returned(None)                \* lines 88-89
    ELSE IF d.days < 2 THEN Returned(None)                \* lines 112-113
    ELSE IF ~(GapUp(d) \/ GapDown(d)) THEN Returned(None) \* lines 145-146
    ELSE IF MeetsThreshold(d) THEN Returned(Some(GapRecord(symbol, d, date)))
    ELSE Returned(None)                                   \* line 179

----------------------------------------------------------------------------
(* GapScanner.scan_market_with_log *)

\* a variant that leaves out a last batch shorter than batch_size
NumBatches_floor(symbols, bs) == Len(symbols) \div bs

\* lines 195-198: symbol_batches
NumBatches(symbols, bs) == (Len(symbols) + bs - 1) \div bs
SymbolBatch(symbols, bs, k) ==
    SubSeq(symbols, (k - 1) * bs + 1, Min(k * bs, Len(symbols)))

\* What _download_batch_data can return for a batch: None (failed = TRUE, the
\* download raised, lines 75-77) or a frame with a column per symbol.
DownloadFailed == [failed |-> TRUE, frame |-> <<>>]
Frame(f) == [failed |-> FALSE, frame |-> f]
BatchData(batch) ==
    {DownloadFailed} \cup {Frame(f) : f \in [1..Len(batch) -> Samples]}

LogEntry(symbol, info, status, has_gap) ==
    [symbol |-> symbol, companyName |-> info.name, sector |-> info.sector,
     status |-> status, has_gap |-> has_gap]

\* a variant that logs nothing for a failed batch
DownloadFailedLog_silent(batch) == <<>>

\* lines 204-212: the entries of a batch whose download failed
DownloadFailedLog(batch) ==
    [i \in 1..Len(batch) |->
        LogEntry(batch[i], CompanyInfoOrUnknown(batch[i]), "download_failed", FALSE)]

\* lines 216-246: the scan log entry of one symbol of a downloaded batch
SymbolLog(symbol, d, date) ==
    LET r == identify_gaps(symbol, d, date)
    IN  IF r.raised                                             \* 237-246
        THEN LogEntry(symbol, CompanyInfoOrUnknown(symbol), "error", FALSE)
        ELSE IF r.gap # None
        THEN LogEntry(symbol, CompanyInfo(symbol), "gap_found", TRUE)
        ELSE LogEntry(symbol, CompanyInfo(symbol), "no_gap", FALSE)

\* a variant that keeps the gaps down out of gap_data
SymbolGaps_up_only(symbol, d, date) ==
    LET r == identify_gaps(symbol, d, date)
    IN  IF r.raised \/ r.gap = None \/ ~GapUp(d) THEN <<>> ELSE r.gap

\* lines 217-221: what one symbol adds to gap_data
SymbolGaps(symbol, d, date) ==
    LET r == identify_gaps(symbol, d, date)
    IN  IF r.raised THEN <<>> ELSE r.gap

RECURSIVE FrameGaps(_, _, _, _)
FrameGaps(batch, f, date, i) ==
    IF i > Len(batch) THEN <<>>
    ELSE SymbolGaps(batch[i], f[i], date) \o FrameGaps(batch, f, date, i + 1)

\* the body of the loop over symbol_batches, lines 200-252, for one batch:
\* what it appends to gap_data and to scan_log, and adds to processed
BatchGaps(batch, data, date) ==
    IF data.failed THEN <<>> ELSE FrameGaps(batch, data.frame, date, 1)

BatchLog(batch, data, date) ==
    IF data.failed THEN DownloadFailedLog(batch)
    ELSE [i \in 1..Len(batch) |-> SymbolLog(batch[i], data.frame[i], date)]

BatchProcessed(batch, data) == IF data.failed THEN 0 ELSE Len(batch)

\* a variant that gives up the scan at the first failed download
AfterBatch_abort(k, data, n) == IF data.failed THEN n ELSE k + 1

\* the loop goes on to the next batch, after a failed download too
\* (`continue`, line 213): the number of batches iterated after batch k + 1
\* of n
AfterBatch(k, data, n) == k + 1

----------------------------------------------------------------------------
(* api.py: time *)

DaySecs == 24 * 3600

\* now.strftime('%Y-%m-%d') and the 'date' of a record: the day number.  The
\* code compares and sorts the strings; for four-digit years their order is
\* the order of the days.
Date(t) == t \div DaySecs

\* now.replace(hour=h, minute=m): second (and microsecond) are kept
Replace(t, h, m) == Date(t) * DaySecs + h * 3600 + m * 60 + (t % 60)

\* market_open <= now <= market_cutoff (lines 80-85, 154-157, 206-209)
InWindow(now) ==
    /\ Replace(now, WindowHour, OpenMinute) <= now
    /\ now <= Replace(now, WindowHour, CutoffMinute)

\* the part of each day the model looks at: from one reading before the
\* window opens to after it has closed
DayStart == WindowHour * 3600 + OpenMinute * 60 - Step
DayEnd == WindowHour * 3600 + CutoffMinute * 60 + Step
FirstDay == KeepDates
LastDay == FirstDay + MaxDays - 1

----------------------------------------------------------------------------
(* api.py: the ledger *)

Dates(hist) == {hist[i].date : i \in DOMAIN hist}

\* a variant that keeps the entries of the date
RemoveDate_keep(hist, d) == hist

\* lines 97-100
RemoveDate(hist, d) == SelectSeq(hist, LAMBDA e : e.date # d)

\* a variant that slices the other end, dates[:3]
LastDates_first(dates) ==
    {d \in dates : Cardinality({e \in dates : e < d}) < KeepDates}

\* sorted(set(...))[-3:], lines 106-108
LastDates(dates) ==
    {d \in dates : Cardinality({e \in dates : e > d}) < KeepDates}

\* lines 106-112
Trim(hist) ==
    IF Cardinality(Dates(hist)) > KeepDates
    THEN SelectSeq(hist, LAMBDA e : e.date \in LastDates(Dates(hist)))
    ELSE hist

\* lines 89-112: cache['historical_data'] after a scan returned `results`
UpdateLedger(hist, results, current_date) ==
    IF results # <<>>
    THEN Trim(RemoveDate(hist, current_date) \o results)
    ELSE hist

\* save_historical_data, lines 53-60: the file is written, or the write
\* raises and the exception is caught and logged.  Either way the call
\* returns; the file is not read again after startup (line 63), so its
\* content is not part of the state.
SaveOutcomes == {"saved", "failed"}

\* a variant without the try/except of save_historical_data
SaveRaises_uncaught(outcome) == outcome = "failed"

\* lines 55-60: whether an exception leaves save_historical_data
SaveRaises(outcome) == FALSE

\* what load_historical_data can return at startup (lines 41-51, 63): a
\* ledger an earlier run saved, so of at most KeepDates earlier dates
OldLedger ==
    [d \in 1..KeepDates |->
        GapRecord(SymbolPool[1], IF d = 2 THEN GapDownSample ELSE GapUpSample, d - 1)]
LoadChoices == {SubSeq(OldLedger, k, KeepDates) : k \in 1..(KeepDates + 1)}

----------------------------------------------------------------------------
(* api.py: the read path *)

Abs(x) == IF x < 0 THEN -x ELSE x

\* a variant that lets an entry pass the entries of equal key
Before_or_equal(a, b) ==
    \/ a.date > b.date
    \/ a.date = b.date /\ Abs(a.gap_size) >= Abs(b.gap_size)

\* key=lambda x: (x['date'], abs(x['gap_size'])), reverse=True (lines 168-169):
\* a comes before b when its key is the greater
Before(a, b) ==
    \/ a.date > b.date
    \/ a.date = b.date /\ Abs(a.gap_size) > Abs(b.gap_size)

\* e put into a sorted sequence, behind the entries it is not before
RECURSIVE Insert(_, _)
Insert(sorted, e) ==
    IF sorted = <<>> THEN <<e>>
    ELSE IF Before(e, Head(sorted)) THEN <<e>> \o sorted
    ELSE <<Head(sorted)>> \o Insert(Tail(sorted), e)

\* sorted(cache['historical_data'], key=..., reverse=True), lines 166-170:
\* Python's sort is stable, with reverse=True too
RECURSIVE SortedFrom(_, _)
SortedFrom(hist, sorted) ==
    IF hist = <<>> THEN sorted
    ELSE SortedFrom(Tail(hist), Insert(sorted, Head(hist)))
sorted_data(hist) == SortedFrom(hist, <<>>)

\* what a request gets: nothing yet, the sorted entries (line 173), or the
\* HTTPException of line 163
NoResponse == None
Ok(body) == Some([path |-> "gaps", status |-> 200, body |-> body])
ServerError == Some([path |-> "gaps", status |-> 500, body |-> <<>>])

\* what health_check returns of the ledger, lines 196-197
Health(hist) ==
    Some([path |-> "health", status |-> 200, body |-> <<>>,
          cached_results_count |-> Len(hist), data_dates |-> Dates(hist)])

----------------------------------------------------------------------------
(* api.py: tasks *)

\* the background_scanner task; the request handlers are 1..NReq
BG == 0
Requests == 1..NReq
Tasks == {BG} \cup Requests

\* ev names the calls of scan_market and their ends; the other steps (time
\* passing, a batch fetched, a request answered from the cache, a turn of the
\* background loop outside the window) are "other".  The end of a completed
\* scan also tells what save_historical_data did ("none": not called),
\* whether the scan found what the ledger already held for its date, and
\* whether a date left the ledger.
Done(t, save, again, evicted) ==
    [kind |-> "completed", task |-> t, save |-> save, again |-> again,
     evicted |-> evicted]
Event(kind, t) ==
    [kind |-> kind, task |-> t, save |-> "none", again |-> FALSE,
     evicted |-> FALSE]
Other == Event("other", BG)

NoExec == [bidx |-> 0, gap_data |-> <<>>]

\* a variant without the finally
Released_not(c) == c

\* lines 128-129: finally: cache['scanning'] = False
Released(c) == [c EXCEPT !.scanning = FALSE]

\* a variant that records the time of a failed scan too
Failure_stamped(c, now) == Released([c EXCEPT !.last_scan = Some(now)])

\* lines 125-129: an exception skips line 123 and is raised again; finally
Failure(c, now) == Released(c)

\* a variant without the guard
InFlight_off(scanning) == FALSE

\* line 66: if cache['scanning']
InFlight(scanning) == scanning

\* What the frames of a batch are drawn from under Spec
ApiSamples == {GapUpSample, GapDownSample, QuietSample}
ApiBatchData(batch) ==
    {DownloadFailed} \cup {Frame(f) : f \in [1..Len(batch) -> ApiSamples]}

\* What a call of scan_market by task t amounts to, by the state it is made in
\* and by what the construction of the scanner does (dt: the time it takes,
\* ctor_ok: whether it returns)
CallKind(dt, ctor_ok) ==
    IF cache.scanning THEN "rejected"
    ELSE IF ~ctor_ok THEN "ctor_raised"
    ELSE IF InWindow(clock + dt) THEN "started"
    ELSE "outside"

\* scan_market from its call to its first await or its return, lines 65-87
\* and 120-129.  GapScanner(...) at line 72 fetches the symbol table: it
\* blocks the event loop for dt seconds and may raise.
scan_market(t, dt, ctor_ok) ==
    IF InFlight(cache.scanning)
    THEN \* lines 66-68
         UNCHANGED <<clock, cache, pc, tnow, exec>>
    ELSE IF ~ctor_ok
    THEN \* line 71, line 72 raises, lines 125-129
         /\ clock' = clock + dt
         /\ cache' = Failure([cache EXCEPT !.scanning = TRUE], clock + dt)
         /\ UNCHANGED <<pc, tnow, exec>>
    ELSE IF InWindow(clock + dt)
    THEN \* lines 71-87: the coroutine awaits the executor
         /\ clock' = clock + dt
         /\ cache' = [cache EXCEPT !.scanning = TRUE]
         /\ pc' = [pc EXCEPT ![t] = "scan"]
         /\ tnow' = [tnow EXCEPT ![t] = clock + dt]
         /\ exec' = [exec EXCEPT ![t] = NoExec]
    ELSE \* lines 120-123, 129
         /\ clock' = clock + dt
         /\ cache' = Released([cache EXCEPT !.last_scan = Some(clock + dt),
                                            !.scanning = TRUE])
         /\ UNCHANGED <<pc, tnow, exec>>

\* What the construction of the scanner may do in a call of scan_market: the
\* time it takes and whether it returns.  A call turned away at line 66 does
\* not get to it.
CtorChoices ==
    IF cache.scanning THEN {<<0, TRUE>>}
    ELSE {dt \in {0, Step} : (clock % DaySecs) + dt <= DayEnd} \X BOOLEAN

\* what is left of a sleep after dt seconds
Sleep(left, dt) == IF left > dt THEN left - dt ELSE 0

\* the completion of a scan is remembered while it is less than a cooldown old
Recent(done, now) ==
    IF done # None /\ now - done[1] >= CooldownSecs THEN None ELSE done

\* background_scanner, lines 202-216: one turn of the loop, up to the sleep
\* or to the await inside scan_market
BackgroundTick ==
    /\ pc[BG] = "idle"
    /\ bgSleep = 0
    /\ IF InWindow(clock)
       THEN \E c \in CtorChoices :
              /\ scan_market(BG, c[1], c[2])
              /\ ev' = Event(CallKind(c[1], c[2]), BG)
       ELSE /\ ev' = Other
            /\ UNCHANGED <<clock, cache, pc, tnow, exec>>
    /\ bgSleep' = IF pc'[BG] = "idle" THEN SleepSecs ELSE 0
    /\ last_done' = Recent(last_done, clock')
    /\ response' = NoResponse
    /\ UNCHANGED <<committed, scannerVars, scanVars>>

\* line 158
CooldownOver(now) ==
    cache.last_scan = None \/ now - cache.last_scan[1] > CooldownSecs

\* get_gaps after its call of scan_market, lines 161-173: the call raised,
\* is awaiting the executor, or returned
AfterCall(kind, hist) ==
    IF kind = "ctor_raised" THEN ServerError
    ELSE IF kind = "started" THEN NoResponse
    ELSE Ok(sorted_data(hist))

\* get_gaps, lines 148-173: a request, up to its response or to the await
\* inside scan_market
GetGaps(r) ==
    /\ pc[r] = "idle"
    /\ IF InWindow(clock) /\ CooldownOver(clock)
       THEN \E c \in CtorChoices :
              /\ scan_market(r, c[1], c[2])
              /\ ev' = Event(CallKind(c[1], c[2]), r)
              /\ response' = AfterCall(CallKind(c[1], c[2]), cache'.historical_data)
       ELSE /\ ev' = Other
            /\ response' = Ok(sorted_data(cache.historical_data))
            /\ UNCHANGED <<clock, cache, pc, tnow, exec>>
    /\ bgSleep' = Sleep(bgSleep, clock' - clock)
    /\ last_done' = Recent(last_done, clock')
    /\ UNCHANGED <<committed, scannerVars, scanVars>>

\* health_check, lines 176-198: no await, it answers from the cache
HealthCheck ==
    /\ response' = Health(cache.historical_data)
    /\ ev' = Other
    /\ UNCHANGED <<clock, cache, pc, tnow, exec, bgSleep, committed, last_done,
                   scannerVars, scanVars>>

\* scanner.scan_market in the executor thread: one batch of the loop of
\* scan_market_with_log
ExecBatch(t) ==
    /\ pc[t] = "scan"
    /\ exec[t].bidx < NumBatches(sp500_symbols, batch_size)
    /\ LET batch == SymbolBatch(sp500_symbols, batch_size, exec[t].bidx + 1)
       IN  \E data \in ApiBatchData(batch) :
             exec' = [exec EXCEPT ![t] =
                        [bidx |-> AfterBatch(@.bidx, data,
                                             NumBatches(sp500_symbols, batch_size)),
                         gap_data |-> @.gap_data \o BatchGaps(batch, data, Date(clock))]]
    /\ ev' = Other
    /\ response' = NoResponse
    /\ UNCHANGED <<clock, cache, pc, tnow, bgSleep, committed, last_done,
                   scannerVars, scanVars>>

EntriesFor(hist, d) == SelectSeq(hist, LAMBDA e : e.date = d)

\* a variant with an await between the removal of the date's entries (line
\* 100) and their replacement (line 103)
UpdateAwaits_yes == TRUE

\* lines 89-115 hold no await: the update of the ledger is one step of the
\* event loop
UpdateAwaits == FALSE

\* scan_market resumed with the result of the executor, lines 87-129 (or, had
\* the update an await, resumed up to it and then from it).  An exception
\* leaving save_historical_data (line 115) would skip line 123 and be raised
\* again at line 127.
ScanFinish(t) ==
    /\ pc[t] \in {"scan", "update"}
    /\ exec[t].bidx = NumBatches(sp500_symbols, batch_size)
    /\ LET results == exec[t].gap_data
           date    == Date(tnow[t])
           old     == cache.historical_data
           hist    == UpdateLedger(old, results, date)
       IN  IF UpdateAwaits /\ pc[t] = "scan" /\ results # <<>>
           THEN /\ cache' = [cache EXCEPT
                               !.historical_data = RemoveDate(old, date)]
                /\ pc' = [pc EXCEPT ![t] = "update"]
                /\ ev' = Other
                /\ response' = NoResponse
                /\ UNCHANGED <<tnow, exec, bgSleep, committed, last_done>>
           ELSE /\ \E save \in IF results # <<>> THEN SaveOutcomes ELSE {"none"} :
                     IF SaveRaises(save)
                     THEN /\ cache' = Failure([cache EXCEPT
                                                 !.historical_data = hist],
                                                tnow[t])
                          /\ ev' = [Event("raised", t) EXCEPT !.save = save]
                          /\ response' = IF t \in Requests THEN ServerError
                                                           ELSE NoResponse
                          /\ last_done' = last_done
                     ELSE /\ cache' = Released([cache EXCEPT
                                                  !.last_scan = Some(tnow[t]),
                                                  !.historical_data = hist])
                          /\ ev' = Done(t, save,
                                       /\ results # <<>>
                                       /\ EntriesFor(old, date) = results,
                                       ~(Dates(old) \subseteq Dates(hist)))
                          /\ response' = IF t \in Requests
                                         THEN Ok(sorted_data(hist))
                                         ELSE NoResponse
                          /\ last_done' = Some(clock)
                /\ committed' = hist
                /\ pc' = [pc EXCEPT ![t] = "idle"]
                /\ tnow' = [tnow EXCEPT ![t] = 0]
                /\ exec' = [exec EXCEPT ![t] = NoExec]
                /\ bgSleep' = IF t = BG THEN SleepSecs ELSE bgSleep
    /\ UNCHANGED <<clock, scannerVars, scanVars>>

\* scan_market resumed with an exception of the executor, lines 125-129
ScanRaise(t) ==
    /\ pc[t] = "scan"
    /\ cache' = Failure(cache, tnow[t])
    /\ pc' = [pc EXCEPT ![t] = "idle"]
    /\ tnow' = [tnow EXCEPT ![t] = 0]
    /\ exec' = [exec EXCEPT ![t] = NoExec]
    /\ bgSleep' = IF t = BG THEN SleepSecs ELSE bgSleep
    /\ ev' = Event("raised", t)
    /\ response' = IF t \in Requests THEN ServerError ELSE NoResponse
    /\ UNCHANGED <<clock, committed, last_done, scannerVars, scanVars>>

\* time passes
ClockTick ==
    /\ (clock % DaySecs) + Step <= DayEnd
    /\ clock' = clock + Step
    /\ bgSleep' = Sleep(bgSleep, Step)
    /\ last_done' = Recent(last_done, clock')
    /\ ev' = Other
    /\ response' = NoResponse
    /\ UNCHANGED <<cache, pc, tnow, exec, committed, scannerVars, scanVars>>

\* the next day begins; a scan started in the window is over long before, and
\* so are the sleep of the background task and the cooldown.
NextDay ==
    /\ \A t \in Tasks : pc[t] = "idle"
    /\ Date(clock) < LastDay
    /\ clock' = (Date(clock) + 1) * DaySecs + DayStart
    /\ bgSleep' = 0
    /\ last_done' = None
    /\ ev' = Other
    /\ response' = NoResponse
    /\ UNCHANGED <<cache, pc, tnow, exec, committed, scannerVars, scanVars>>

----------------------------------------------------------------------------
(* Specifications *)

Prefix(n) == SubSeq(SymbolPool, 1, n)

\* _get_company_info, lines 42-54: the symbols with an entry
Table(symbols) == {symbols[i] : i \in DOMAIN symbols}

IdleScan ==
    /\ bidx = 0
    /\ fetched = <<>>
    /\ gap_data = <<>>
    /\ scan_log = <<>>
    /\ processed = 0
    /\ spc = "loop"

IdleAt(hist, now) ==
    /\ clock = now
    /\ cache = [last_scan |-> None, historical_data |-> hist, scanning |-> FALSE]
    /\ pc = [t \in Tasks |-> "idle"]
    /\ tnow = [t \in Tasks |-> 0]
    /\ exec = [t \in Tasks |-> NoExec]
    /\ bgSleep = 0
    /\ ev = Other
    /\ response = NoResponse
    /\ committed = hist
    /\ last_done = None

IdleApi(hist) == IdleAt(hist, FirstDay * DaySecs + DayStart)

\* api.py after startup: the ledger is what load_historical_data returned
Init ==
    /\ sp500_symbols = Prefix(ApiSymbols)
    /\ batch_size = ApiBatchSize
    /\ company_info = Table(sp500_symbols)
    /\ IdleScan
    /\ \E hist \in LoadChoices : IdleApi(hist)

Next ==
    \/ BackgroundTick
    \/ \E r \in Requests : GetGaps(r)
    \/ HealthCheck
    \/ \E t \in Tasks : ExecBatch(t)
    \/ \E t \in Tasks : ScanFinish(t)
    \/ \E t \in Tasks : ScanRaise(t)
    \/ ClockTick
    \/ NextDay

Spec == Init /\ [][Next]_vars

\* the scan running in the executor goes on until scan_market is resumed
\* with its result or its exception
Terminates ==
    \E t \in Tasks : ExecBatch(t) \/ ScanFinish(t) \/ ScanRaise(t)

FairSpec == Spec /\ WF_vars(Terminates)

\* a GapScanner and a call of scan_market_with_log(batch_size).  __init__
\* fills company_info from the table the symbols come from; the attribute is
\* public and the scan looks every symbol up with a fallback, so the scan is
\* taken with the metadata of any first symbols of the universe.
InitScan ==
    /\ sp500_symbols \in {Prefix(n) : n \in 0..MaxSymbols}
    /\ batch_size \in 1..MaxBatch
    /\ company_info \in {Table(Prefix(n)) : n \in 0..Len(sp500_symbols)}
    /\ IdleScan
    /\ IdleApi(<<>>)

\* one iteration of `for batch in symbol_batches`, lines 200-252
ScanBatch ==
    /\ spc = "loop"
    /\ bidx < NumBatches(sp500_symbols, batch_size)
    /\ LET batch == SymbolBatch(sp500_symbols, batch_size, bidx + 1)
       IN  \E data \in BatchData(batch) :
             /\ fetched' = Append(fetched, data)
             /\ gap_data' = gap_data \o BatchGaps(batch, data, Date(clock))
             /\ scan_log' = scan_log \o BatchLog(batch, data, Date(clock))
             /\ processed' = processed + BatchProcessed(batch, data)
             /\ bidx' = AfterBatch(bidx, data, NumBatches(sp500_symbols, batch_size))
    /\ UNCHANGED <<spc, scannerVars, apiVars>>

\* lines 254-255: the loop is over, the function returns
ScanReturn ==
    /\ spc = "loop"
    /\ bidx = NumBatches(sp500_symbols, batch_size)
    /\ spc' = "done"
    /\ UNCHANGED <<bidx, fetched, gap_data, scan_log, processed,
                   scannerVars, apiVars>>

NextScan == ScanBatch \/ ScanReturn

SpecScan == InitScan /\ [][NextScan]_vars

\* a gap down of 3 percent
WideDownSample == Sample(TRUE, 5, 2, 100000, 95000, 103000, 99000, 103500, 98500)

\* the entries and the ledgers SpecRead draws: gaps of 2 and 3 percent of two
\* symbols on ReadDays dates, in any order
ReadEntries ==
    {GapRecord(SymbolPool[i], d, date) :
        i \in 1..2, d \in {GapUpSample, GapDownSample, WideDownSample},
        date \in 0..(ReadDays - 1)}
ReadLedgers == UNION {[1..n -> ReadEntries] : n \in 0..MaxLedger}

\* api.py with some ledger in the cache, outside the scan window
InitRead ==
    /\ sp500_symbols = Prefix(ApiSymbols)
    /\ batch_size = ApiBatchSize
    /\ company_info = Table(sp500_symbols)
    /\ IdleScan
    /\ \E hist \in ReadLedgers : IdleApi(hist)

\* requests to /api/gaps
NextRead == \E r \in Requests : GetGaps(r)

SpecRead == InitRead /\ [][NextRead]_vars

\* api.py idle at any second of the minutes 9:42 to 9:45, or within Margin
\* seconds of them
WindowTimes ==
    {FirstDay * DaySecs + WindowHour * 3600 + s :
        s \in (OpenMinute * 60 - Margin)..(CutoffMinute * 60 + 59 + Margin)}

InitWindow ==
    /\ sp500_symbols = Prefix(ApiSymbols)
    /\ batch_size = ApiBatchSize
    /\ company_info = Table(sp500_symbols)
    /\ IdleScan
    /\ \E now \in WindowTimes : IdleAt(<<>>, now)

\* the calls and the scans, with no time passing but in the construction of
\* the scanner
NextWindow ==
    \/ BackgroundTick
    \/ \E r \in Requests : GetGaps(r)
    \/ \E t \in Tasks : ExecBatch(t)
    \/ \E t \in Tasks : ScanFinish(t)
    \/ \E t \in Tasks : ScanRaise(t)

SpecWindow == InitWindow /\ [][NextWindow]_vars

----------------------------------------------------------------------------
(* Properties of api.py, under Spec *)

InScan == {t \in Tasks : pc[t] = "scan"}

\* C1: at most one invocation of scan_market is past the 'scanning' guard and
\* running the scanner, whatever the interleaving of background ticks and
\* requests.
OneScanInFlight == Cardinality(InScan) <= 1

\* a scan of a request is running, a batch is fetched, and the background
\* scanner's call has just been turned away
OneScanInFlightWitness ==
    /\ \E r \in Requests : pc[r] = "scan" /\ exec[r].bidx > 0
    /\ ev = Event("rejected", BG)

\* C2: a call of scan_market made while a scan is in flight returns at once;
\* it fetches no batch (the caller is not running a scan after it and no
\* run's progress changes) and the cache, with the ledger, is as before.
RejectedCallIsNoop ==
    [][ev'.kind = "rejected" =>
          /\ cache' = cache
          /\ exec' = exec
          /\ pc' = pc
          /\ clock' = clock
          /\ InScan' = InScan /\ ev'.task \notin InScan']_vars

\* the background scanner's run has fetched a batch and a request's call has
\* just been turned away
RejectedCallWitness ==
    /\ pc[BG] = "scan" /\ exec[BG].bidx > 0
    /\ ev.kind = "rejected" /\ ev.task \in Requests
    /\ cache.historical_data # <<>>

\* C3 (as claimed): a call of scan_market outside the scan window fetches
\* nothing and leaves historical_data and last_scan as they were.
OutsideWindowIsNoop ==
    [][ev'.kind = "outside" =>
          /\ cache'.historical_data = cache.historical_data
          /\ cache'.last_scan = cache.last_scan
          /\ exec' = exec
          /\ pc' = pc]_vars

\* C4 (as claimed): no scan starts less than the cooldown after the previous
\* successful scan completed.
CooldownRespected ==
    [][ev'.kind = "started" =>
          \/ last_done = None
          \/ clock' - last_done[1] >= CooldownSecs]_vars

OtherEntries(hist, d) == SelectSeq(hist, LAMBDA e : e.date # d)

\* C5 (as claimed): after every scan that completes on date d, whatever the
\* number of records it found, the ledger's entries for d are exactly the
\* records of that scan, and the entries of the other retained dates are
\* unchanged.
ReplaceOnRescan ==
    [][ev'.kind = "completed" =>
          LET t == ev'.task
              d == Date(tnow[t])
              kept == Dates(cache'.historical_data) \ {d}
          IN  /\ EntriesFor(cache'.historical_data, d) = exec[t].gap_data
              /\ OtherEntries(cache'.historical_data, d) =
                   SelectSeq(cache.historical_data, LAMBDA e : e.date \in kept)]_vars

\* C6: starting from a loaded ledger of at most 3 dates, historical_data never
\* holds more than 3 distinct dates, and what a scan drops are the oldest
\* dates: every date dropped is older than every date kept.
BoundedRetention ==
    /\ [](Cardinality(Dates(cache.historical_data)) <= KeepDates)
    /\ [][ev'.kind = "completed" =>
            LET had  == Dates(cache.historical_data) \cup
                          Dates(exec[ev'.task].gap_data)
                kept == Dates(cache'.historical_data)
            IN  /\ kept \subseteq had
                /\ \A r \in had \ kept : \A k \in kept : r < k
                /\ had # kept => Cardinality(kept) = KeepDates]_vars

\* a scan of a day later than the three loaded dates has dropped the oldest
BoundedRetentionWitness ==
    /\ ev.kind = "completed"
    /\ ev.evicted
    /\ Cardinality(Dates(cache.historical_data)) = KeepDates
    /\ Date(clock) \in Dates(cache.historical_data)

\* C7: the ledger after a second scan of the same date with the same data is
\* the ledger after the first.  A scan that completes with a non-empty result
\* leaves it as the ledger's entries for its date; a scan that completes
\* with what the ledger holds for its date (the result of the scan before,
\* then), or that finds nothing, leaves the ledger as it is, and the number
\* of entries for the date with it.
IdempotentRescan ==
    [][ev'.kind = "completed" =>
          LET t == ev'.task
              d == Date(tnow[t])
              results == exec[t].gap_data
          IN  /\ results # <<>> =>
                    EntriesFor(cache'.historical_data, d) = results
              /\ (results = <<>> \/ EntriesFor(cache.historical_data, d) = results)
                    => cache'.historical_data = cache.historical_data]_vars

\* a scan has completed with the non-empty result the ledger already held
\* for its date
IdempotentRescanWitness ==
    /\ ev.kind = "completed"
    /\ ev.again
    /\ EntriesFor(cache.historical_data, Date(clock)) # <<>>

----------------------------------------------------------------------------
(* Properties of scan_market_with_log, under SpecScan *)

BatchOf(k) == SymbolBatch(sp500_symbols, batch_size, k)
\* the place in the universe of symbol i of batch k
Pos(k, i) == (k - 1) * batch_size + i
EntriesOf(symbol) == {j \in DOMAIN scan_log : scan_log[j].symbol = symbol}
HasGapSample(d) == d \in {GapUpSample, GapDownSample}

\* C8: the scan log returned has exactly one entry per symbol of the
\* universe, in universe order, whatever downloads failed and whatever the
\* symbols' outcomes.
ScanLogComplete ==
    spc = "done" =>
        /\ Len(scan_log) = Len(sp500_symbols)
        /\ \A i \in DOMAIN scan_log : scan_log[i].symbol = sp500_symbols[i]

\* a scan of several batches returned: one download failed, one symbol's
\* detection raised, one symbol has a gap
ScanLogCompleteWitness ==
    /\ spc = "done"
    /\ Len(fetched) >= 3
    /\ \E k \in DOMAIN fetched : fetched[k].failed
    /\ \E k \in DOMAIN fetched :
         ~fetched[k].failed /\ \E i \in DOMAIN fetched[k].frame : ~fetched[k].frame[i].ok
    /\ gap_data # <<>>

\* C9: a batch whose download failed gets exactly one 'download_failed' entry
\* (has_gap false) per symbol and no GapRecord, and the scan goes on: when it
\* returns every batch was fetched, and the symbols of the downloaded batches
\* were evaluated (those with a gap are logged 'gap_found' and recorded).
BatchFailureIsolated ==
    /\ \A k \in DOMAIN fetched : fetched[k].failed =>
         \A i \in DOMAIN BatchOf(k) :
           /\ Pos(k, i) \in DOMAIN scan_log
           /\ scan_log[Pos(k, i)].symbol = BatchOf(k)[i]
           /\ scan_log[Pos(k, i)].status = "download_failed"
           /\ scan_log[Pos(k, i)].has_gap = FALSE
           /\ EntriesOf(BatchOf(k)[i]) = {Pos(k, i)}
           /\ \A g \in DOMAIN gap_data : gap_data[g].symbol # BatchOf(k)[i]
    /\ spc = "done" =>
         /\ Len(fetched) = NumBatches(sp500_symbols, batch_size)
         /\ \A k \in DOMAIN fetched : ~fetched[k].failed =>
              \A i \in DOMAIN BatchOf(k) : HasGapSample(fetched[k].frame[i]) =>
                /\ scan_log[Pos(k, i)].symbol = BatchOf(k)[i]
                /\ scan_log[Pos(k, i)].status = "gap_found"
                /\ scan_log[Pos(k, i)].has_gap = TRUE
                /\ \E g \in DOMAIN gap_data : gap_data[g].symbol = BatchOf(k)[i]

\* the download of a batch of two symbols failed and a later batch gave a gap
BatchFailureIsolatedWitness ==
    /\ spc = "done"
    /\ \E k \in DOMAIN fetched :
         /\ fetched[k].failed
         /\ Len(BatchOf(k)) >= 2
         /\ \E j \in DOMAIN fetched :
              /\ j > k
              /\ ~fetched[j].failed
              /\ \E i \in DOMAIN fetched[j].frame : HasGapSample(fetched[j].frame[i])

\* C10 (as claimed): a symbol whose gap detection raises gets a log entry of
\* status 'error', not 'no_gap'.
DetectionErrorLogged ==
    \A k \in DOMAIN fetched : ~fetched[k].failed =>
      \A i \in DOMAIN fetched[k].frame : ~fetched[k].frame[i].ok =>
        /\ Pos(k, i) \in DOMAIN scan_log
        /\ scan_log[Pos(k, i)].status = "error"

----------------------------------------------------------------------------
(* Properties of identify_gaps, under SpecScan *)

\* the positions of the universe whose batch was downloaded, and the sample
\* downloaded for the symbol at a position
BatchAt(p) == (p - 1) \div batch_size + 1
Evaluated ==
    {p \in DOMAIN sp500_symbols :
        BatchAt(p) \in DOMAIN fetched /\ ~fetched[BatchAt(p)].failed}
SampleAt(p) == fetched[BatchAt(p)].frame[((p - 1) % batch_size) + 1]
RecordsOf(symbol) == {g \in DOMAIN gap_data : gap_data[g].symbol = symbol}

\* the open is outside the previous day's range but the candle does not
\* reverse
OpenOnly(d) ==
    \/ d.open < d.prev_low /\ ~(d.close > d.open)
    \/ d.open > d.prev_high /\ ~(d.close < d.open)

NoRecordWithoutReversal ==
    \A p \in Evaluated :
        SampleAt(p).ok /\ OpenOnly(SampleAt(p)) => RecordsOf(sp500_symbols[p]) = {}

\* C11 (as claimed): every record of type 'up' has current_open < prev_low and
\* price > current_open, every record of type 'down' has current_open >
\* prev_high and price < current_open, and no record is produced when the
\* open is outside the previous range without the reversal.
GapQualification ==
    /\ \A g \in DOMAIN gap_data :
         LET r == gap_data[g]
         IN  /\ r.gap_type = "up" =>
                   r.current_open < r.prev_low /\ r.price > r.current_open
             /\ r.gap_type = "down" =>
                   r.current_open > r.prev_high /\ r.price < r.current_open
    /\ NoRecordWithoutReversal

\* C11 (amended): the prices a record of type 'up' was computed from have
\* open < previous low and close > open, those of a record of type 'down'
\* open > previous high and close < open; the record's fields, which are
\* these prices rounded to cents, satisfy the same comparisons with <= and >=.
\* No record is produced without the reversal.
GapQualificationRounded ==
    /\ \A p \in Evaluated : \A g \in RecordsOf(sp500_symbols[p]) :
         LET r == gap_data[g]
             d == SampleAt(p)
         IN  /\ r.gap_type \in {"up", "down"}
             /\ r.gap_type = "up" =>
                   /\ d.open < d.prev_low /\ d.close > d.open
                   /\ r.current_open <= r.prev_low /\ r.price >= r.current_open
             /\ r.gap_type = "down" =>
                   /\ d.open > d.prev_high /\ d.close < d.open
                   /\ r.current_open >= r.prev_high /\ r.price <= r.current_open
    /\ \A g \in DOMAIN gap_data :
         \E p \in Evaluated : sp500_symbols[p] = gap_data[g].symbol
    /\ NoRecordWithoutReversal

\* a scan returned an 'up' record whose price and current_open are the same
\* cent and a 'down' record, and evaluated a symbol whose open was below the
\* previous low without a reversal
GapQualificationWitness ==
    /\ spc = "done"
    /\ \E g \in DOMAIN gap_data :
         gap_data[g].gap_type = "up" /\ gap_data[g].price = gap_data[g].current_open
    /\ \E g \in DOMAIN gap_data : gap_data[g].gap_type = "down"
    /\ \E p \in Evaluated : SampleAt(p) = NoReversalSample

\* a move that qualifies as a gap and is smaller than min_gap_percent
BelowThreshold(d) ==
    /\ d.ok /\ d.rows >= 2 /\ d.days >= 2
    /\ \/ /\ d.open < d.prev_low /\ d.close > d.open
          /\ (d.prev_low - d.open) * 10000 < MinGapPercent * d.prev_low
       \/ /\ d.open > d.prev_high /\ d.close < d.open
          /\ (d.open - d.prev_high) * 10000 < MinGapPercent * d.prev_high

\* C12: every record a scan produces has abs(gap_size) >= min_gap_percent; a
\* qualifying move below the threshold gives no record and a 'no_gap' log
\* entry.
ThresholdInvariant ==
    /\ \A g \in DOMAIN gap_data : Abs(gap_data[g].gap_size) >= MinGapPercent
    /\ \A p \in Evaluated :
         BelowThreshold(SampleAt(p)) =>
            /\ RecordsOf(sp500_symbols[p]) = {}
            /\ p \in DOMAIN scan_log
            /\ scan_log[p].symbol = sp500_symbols[p]
            /\ scan_log[p].status = "no_gap"
            /\ scan_log[p].has_gap = FALSE

\* a scan returned records and evaluated a gap up of 0.499 percent
ThresholdInvariantWitness ==
    /\ spc = "done"
    /\ gap_data # <<>>
    /\ \E p \in Evaluated : SampleAt(p) = NearSample

\* the prices of the opening candle are whole cents
ExactCents(d) == d.high % Tick = 0 /\ d.low % Tick = 0

\* C13: for every record computed from prices in whole cents, a gap up has
\* entry_price = first_candle_high + 0.01, stop_loss = first_candle_low - 0.01
\* and target = entry_price + 2 * (entry_price - stop_loss); a gap down has
\* entry_price = first_candle_low - 0.01, stop_loss = first_candle_high + 0.01
\* and target = entry_price - 2 * (stop_loss - entry_price); in both cases
\* reward_amount = 2 * risk_amount.  Record fields are in cents.
TradePlanTwoToOne ==
    \A p \in Evaluated : \A g \in RecordsOf(sp500_symbols[p]) :
        LET r == gap_data[g]
        IN  ExactCents(SampleAt(p)) =>
              /\ r.gap_type = "up" =>
                    /\ r.entry_price = r.first_candle_high + 1
                    /\ r.stop_loss = r.first_candle_low - 1
                    /\ r.target = r.entry_price + 2 * (r.entry_price - r.stop_loss)
                    /\ r.risk_amount = r.entry_price - r.stop_loss
              /\ r.gap_type = "down" =>
                    /\ r.entry_price = r.first_candle_low - 1
                    /\ r.stop_loss = r.first_candle_high + 1
                    /\ r.target = r.entry_price - 2 * (r.stop_loss - r.entry_price)
                    /\ r.risk_amount = r.stop_loss - r.entry_price
              /\ r.reward_amount = 2 * r.risk_amount

\* a scan returned a gap up and a gap down computed from whole cents
TradePlanWitness ==
    /\ spc = "done"
    /\ \E p \in Evaluated : \E g \in RecordsOf(sp500_symbols[p]) :
         ExactCents(SampleAt(p)) /\ gap_data[g].gap_type = "up"
    /\ \E p \in Evaluated : \E g \in RecordsOf(sp500_symbols[p]) :
         ExactCents(SampleAt(p)) /\ gap_data[g].gap_type = "down"

----------------------------------------------------------------------------
(* Properties of the read path, under SpecRead *)

\* the last step answered a request to /api/gaps with the entries
GapsAnswered ==
    /\ response # NoResponse
    /\ response[1].path = "gaps" /\ response[1].status = 200

SameKey(a, b) == a.date = b.date /\ Abs(a.gap_size) = Abs(b.gap_size)
Count(seq, e) == Cardinality({i \in DOMAIN seq : seq[i] = e})
Entries(seq) == {seq[i] : i \in DOMAIN seq}

\* C14: get_gaps returns exactly the entries of the ledger (the same
\* multiset), ordered by date descending, then by abs(gap_size) descending,
\* the entries equal on both keys in their ledger order.
ReadPathOrdering ==
    GapsAnswered =>
        LET body == response[1].body
            hist == cache.historical_data
        IN  /\ Len(body) = Len(hist)
            /\ \A e \in Entries(hist) \cup Entries(body) :
                 Count(body, e) = Count(hist, e)
            /\ \A i, j \in DOMAIN body : i < j =>
                 \/ body[i].date > body[j].date
                 \/ /\ body[i].date = body[j].date
                    /\ Abs(body[i].gap_size) >= Abs(body[j].gap_size)
            /\ \A e \in Entries(hist) :
                 SelectSeq(body, LAMBDA x : SameKey(x, e)) =
                   SelectSeq(hist, LAMBDA x : SameKey(x, e))

\* a request was answered from a ledger that was not in order, with two
\* different entries of the same date and gap size and entries of two dates
ReadPathOrderingWitness ==
    /\ GapsAnswered
    /\ response[1].body # cache.historical_data
    /\ \E i, j \in DOMAIN cache.historical_data :
         /\ i < j
         /\ cache.historical_data[i] # cache.historical_data[j]
         /\ SameKey(cache.historical_data[i], cache.historical_data[j])
    /\ Cardinality(Dates(cache.historical_data)) > 1

\* C15 (as claimed): for a symbol absent from company_info, the GapRecord and
\* the scan log entry produced for it, whatever its status, have companyName
\* equal to the symbol and sector "Unknown".
MetadataFallback ==
    /\ \A g \in DOMAIN gap_data :
         gap_data[g].symbol \notin company_info =>
            /\ gap_data[g].companyName = gap_data[g].symbol
            /\ gap_data[g].sector = "Unknown"
    /\ \A j \in DOMAIN scan_log :
         scan_log[j].symbol \notin company_info =>
            /\ scan_log[j].companyName = scan_log[j].symbol
            /\ scan_log[j].sector = "Unknown"

----------------------------------------------------------------------------
(* More properties of api.py, under Spec *)

\* C16: when the save of the ledger fails, scan_market completes without
\* raising (a request that awaited it is answered), historical_data holds
\* the scan's results for its date with at most 3 dates kept, last_scan is
\* the scan's time and the guard is released.
SaveFailureNonFatal ==
    [][ev'.save = "failed" =>
          LET t == ev'.task
          IN  /\ ev'.kind = "completed"
              /\ t \in Requests =>
                    GapsAnswered'
              /\ EntriesFor(cache'.historical_data, Date(tnow[t])) =
                    exec[t].gap_data
              /\ Cardinality(Dates(cache'.historical_data)) <= KeepDates
              /\ cache'.last_scan = Some(tnow[t])
              /\ cache'.scanning = FALSE
              /\ pc'[t] = "idle"]_vars

\* a request's scan has completed with a failed save, and a date left the
\* ledger
SaveFailureWitness ==
    /\ ev.kind = "completed" /\ ev.save = "failed" /\ ev.task \in Requests
    /\ ev.evicted
    /\ cache.last_scan # None /\ ~cache.scanning
    /\ response # NoResponse

Ended(kind) == kind \in {"completed", "raised", "outside", "ctor_raised"}

\* C17: the guard is true exactly while an invocation that set it has not
\* ended; every invocation that set it leaves it false when it ends, whether
\* the scan completed, raised, or was outside the window; a call turned away
\* by the guard leaves it true; and, the running scan terminating, from every
\* state where scanning is true a state follows where it is false.
GuardNeverStuck ==
    /\ [](cache.scanning <=> InScan # {})
    /\ [][Ended(ev'.kind) => ~cache'.scanning]_vars
    /\ [][ev'.kind = "rejected" => cache.scanning /\ cache'.scanning]_vars
    /\ cache.scanning ~> ~cache.scanning

\* the background scanner's scan, started after an earlier scan or call set
\* last_scan, has raised: the guard is free again
GuardNeverStuckWitness ==
    /\ ev.kind = "raised" /\ ev.task = BG
    /\ ~cache.scanning
    /\ cache.last_scan # None

\* C18: a request to /api/gaps or /api/health answered while a scan runs sees
\* the ledger as the last whole update left it, never a ledger with the
\* date's old entries removed and the new ones not yet added, or with dates
\* not yet evicted.
AtomicLedgerForReaders ==
    (response # NoResponse /\ response[1].status = 200) =>
        /\ response[1].path = "gaps" =>
              response[1].body = sorted_data(committed)
        /\ response[1].path = "health" =>
              /\ response[1].cached_results_count = Len(committed)
              /\ response[1].data_dates = Dates(committed)
        /\ Cardinality(Dates(committed)) <= KeepDates

\* a request is answered while a scan that found gaps is about to replace
\* the entries the ledger holds for the day
AtomicLedgerWitness ==
    /\ response # NoResponse /\ response[1].status = 200
    /\ \E t \in Tasks :
         /\ pc[t] = "scan"
         /\ exec[t].bidx = NumBatches(sp500_symbols, batch_size)
         /\ exec[t].gap_data # <<>>
    /\ EntriesFor(cache.historical_data, Date(clock)) # <<>>

FailedKinds == {"raised", "ctor_raised"}

\* C19: when the construction of the scanner or the scan raises,
\* historical_data and last_scan are what they were before the call (the
\* call that starts a scan and the steps taken while it runs leave them
\* alone, and so does the failure), the exception reaches the caller (a
\* request is answered with the error), the guard is free and the call that
\* follows is not turned away.
FailedScanLeavesCache ==
    [][/\ (ev'.kind \in FailedKinds \cup {"started"} \/ (InScan # {} /\ InScan' = InScan))
            => /\ cache'.historical_data = cache.historical_data
               /\ cache'.last_scan = cache.last_scan
       /\ ev'.kind \in FailedKinds
            => /\ ~cache'.scanning
               /\ pc'[ev'.task] = "idle"
               /\ ev'.task \in Requests => response' = ServerError
       /\ ev.kind \in FailedKinds => ev'.kind # "rejected"]_vars

\* a request's scan has raised inside the window, after an earlier scan set
\* last_scan and filled the ledger: the request got the error and the guard
\* is free
FailedScanWitness ==
    /\ ev.kind = "raised" /\ ev.task \in Requests
    /\ response = ServerError
    /\ cache.last_scan # None
    /\ cache.historical_data # <<>>
    /\ ~cache.scanning /\ InWindow(clock)

----------------------------------------------------------------------------
(* Properties of the scan window, under SpecWindow *)

TimeOfDay(t) == t % DaySecs

\* C20 (as claimed): a scan is started only at a time t of the day with
\* 09:42:00 <= t <= 09:45:00.
ScanWindowBounds ==
    [][ev'.kind = "started" =>
          /\ WindowHour * 3600 + OpenMinute * 60 <= TimeOfDay(clock')
          /\ TimeOfDay(clock') <= WindowHour * 3600 + CutoffMinute * 60]_vars

----------------------------------------------------------------------------
(* Properties of the batches and of the result of scan_market_with_log,
   under SpecScan *)

\* symbol_batches, and the symbols of its first k batches in a row
SymbolBatches ==
    [k \in 1..NumBatches(sp500_symbols, batch_size) |-> BatchOf(k)]
RECURSIVE Flat(_)
Flat(seqs) == IF seqs = <<>> THEN <<>> ELSE Head(seqs) \o Flat(Tail(seqs))

\* C21: the batches are contiguous and their concatenation is the universe in
\* order; no batch is empty and every batch but the last has exactly
\* batch_size symbols; the scan fetches the batches one after the other, each
\* exactly once: every iteration fetches the one next batch, a frame
\* downloaded has the columns of its batch, and when the scan returns every
\* batch was fetched.
BatchPartition ==
    /\ [](/\ Flat(SymbolBatches) = sp500_symbols
          /\ \A k \in DOMAIN SymbolBatches :
               /\ Len(SymbolBatches[k]) >= 1
               /\ Len(SymbolBatches[k]) <= batch_size
               /\ k < Len(SymbolBatches) => Len(SymbolBatches[k]) = batch_size
               /\ \A i \in DOMAIN SymbolBatches[k] :
                    SymbolBatches[k][i] = sp500_symbols[Pos(k, i)]
          /\ Len(fetched) = bidx
          /\ bidx <= Len(SymbolBatches)
          /\ \A k \in DOMAIN fetched : ~fetched[k].failed =>
               DOMAIN fetched[k].frame = DOMAIN SymbolBatches[k]
          /\ spc = "done" => Len(fetched) = Len(SymbolBatches))
    /\ [][fetched' # fetched =>
            /\ Len(fetched') = Len(fetched) + 1
            /\ SubSeq(fetched', 1, Len(fetched)) = fetched
            /\ bidx' = bidx + 1]_vars

\* a scan of a universe that batch_size does not divide returned: a full batch
\* and a shorter last one were fetched
BatchPartitionWitness ==
    /\ spc = "done"
    /\ Len(SymbolBatches) >= 2
    /\ Len(SymbolBatches[Len(SymbolBatches)]) < batch_size
    /\ Len(fetched) = Len(SymbolBatches)
    /\ ~fetched[Len(fetched)].failed

\* the places of the scan log whose entry is 'gap_found', in order
FoundAt ==
    SelectSeq([j \in DOMAIN scan_log |-> j],
              LAMBDA j : scan_log[j].status = "gap_found")

\* C22: in the result of scan_market_with_log, an entry of the scan log has
\* has_gap exactly when its status is 'gap_found', and the records returned
\* are, in the same order and as many, the records of the symbols whose entry
\* is 'gap_found': each is what identify_gaps made of that symbol's data.
GapsAndLogAgree ==
    spc = "done" =>
        /\ \A j \in DOMAIN scan_log :
             scan_log[j].has_gap <=> scan_log[j].status = "gap_found"
        /\ Len(gap_data) = Len(FoundAt)
        /\ \A g \in DOMAIN FoundAt :
             /\ g \in DOMAIN gap_data
             /\ gap_data[g].symbol = scan_log[FoundAt[g]].symbol
             /\ FoundAt[g] \in Evaluated
             /\ <<gap_data[g]>> =
                  identify_gaps(sp500_symbols[FoundAt[g]], SampleAt(FoundAt[g]),
                                Date(clock)).gap

\* a scan returned two records, one of them a gap down, of symbols that have
\* a symbol without a gap between them
GapsAndLogAgreeWitness ==
    /\ spc = "done"
    /\ Len(gap_data) = 2
    /\ \E g \in DOMAIN gap_data : gap_data[g].gap_type = "down"
    /\ \E j \in DOMAIN scan_log :
         /\ scan_log[j].status = "no_gap"
         /\ FoundAt[1] < j
         /\ j < FoundAt[2]

====
